---- MODULE Spec2Model ----
(***************************************************************************)
(* Model of src/ya_lamp_control_scene.py: the lamp control loop            *)
(* (lamp_loop, get_screen_color_and_brightness, set_lamp_state), the       *)
(* shared settings dictionary with its two locks, and the Flask request    *)
(* handlers (update_settings, start_script, stop_script, index) that run   *)
(* concurrently with the loop.                                             *)
(*                                                                         *)
(* Floats are scaled to integers: update_interval and saturation_boost are *)
(* kept in tenths (0.5 s is 5, 1.0 is 10).  None is the integer -1.        *)
(***************************************************************************)
EXTENDS Integers, FiniteSets, Sequences, TLC

\* ------------------------------------------------------------- bounds
MaxLoops == 2
MaxHandlers == 2
MaxFails == 6
MaxSendCount == 2
\* physical monitors: sct.monitors has NumMonitors + 1 entries
NumMonitors == 1
\* distance between the channel values tried for r, g and b
ChannelStride == 17

\* ------------------------------------------------- program constants
max_errors == 5
DefaultInterval == 5
DefaultStep == 5
DefaultMinBrightness == 6
DefaultMonitor == 1
DefaultBoost == 10

None == -1
NoRead == -99
Invalid == -77
Absent == -88
NoThread == 0

LoopIds == 1..MaxLoops
HandlerIds == 1..MaxHandlers
LoopThread(t) == t
HandlerThread(h) == 100 + h

VARIABLES
    settings,        \* the settings dict
    last_brightness, \* global last_brightness (None or 0..100)
    running,         \* global running flag
    settings_lock,   \* holder of settings_lock, NoThread when free
    mss_lock,        \* holder of mss_lock, NoThread when free
    loop,            \* per lamp_thread: position and locals of lamp_loop
    handler,         \* per Flask worker: the request it serves and its position
    used,            \* history: settings values read by the tick in progress
    seen,            \* history: the records the store held during the tick
                     \*          that agree with every value the tick has read
    lastCtl,         \* history: the start/stop request that completed last
    sendsSinceStop,  \* history: sends executed since running became False
    fails,           \* history: consecutive failed sends per loop
    cooled           \* history: cooldowns taken since the last successful send

vars == <<settings, last_brightness, running, settings_lock, mss_lock, loop,
          handler, used, seen, lastCtl, sendsSinceStop, fails, cooled>>

\* --------------------------------------------------------- pure helpers
Max2(a, b) == IF a >= b THEN a ELSE b
Min2(a, b) == IF a <= b THEN a ELSE b
Max3(a, b, c) == Max2(a, Max2(b, c))
Min3(a, b, c) == Min2(a, Min2(b, c))
Abs(x) == IF x < 0 THEN -x ELSE x
Clip(x, lo, hi) == Max2(lo, Min2(x, hi))

\* int(np.clip(avg_color.mean() / 255 * 100, 1, 100)) for an integer-valued
\* average colour (r, g, b)
BrightnessOf(r, g, b) == Clip(((r + g + b) * 100) \div (3 * 255), 1, 100)

\* int(colorsys.rgb_to_hsv(r/255, g/255, b/255)[0] * 360), in exact arithmetic
HueOf(r, g, b) ==
    LET maxc == Max3(r, g, b)
        minc == Min3(r, g, b)
        d == maxc - minc
        \* six times the hue, as a fraction n / d
        n == IF r = maxc THEN g - b
             ELSE IF g = maxc THEN 2 * d + (b - r)
             ELSE 4 * d + (r - g)
        m == IF d = 0 THEN 0 ELSE n % (6 * d)
    IN IF d = 0 THEN 0 ELSE (60 * m) \div d

\* whether the exact hue in degrees is a whole number
HueWhole(r, g, b) ==
    LET maxc == Max3(r, g, b)
        minc == Min3(r, g, b)
        d == maxc - minc
        n == IF r = maxc THEN g - b
             ELSE IF g = maxc THEN 2 * d + (b - r)
             ELSE 4 * d + (r - g)
    IN d # 0 /\ (60 * (n % (6 * d))) % d = 0

\* a saturation without the min(1.0, ...) of line 76
SaturationUnclamped(r, g, b, boost) ==
    LET maxc == Max3(r, g, b)
        minc == Min3(r, g, b)
    IN IF maxc = minc THEN 0
       ELSE ((maxc - minc) * boost * 100) \div (maxc * 10)

\* int(min(1.0, s * saturation_boost) * 100), boost in tenths
SaturationOf(r, g, b, boost) ==
    LET maxc == Max3(r, g, b)
        minc == Min3(r, g, b)
    IN IF maxc = minc THEN 0
       ELSE LET x == ((maxc - minc) * boost * 100) \div (maxc * 10)
            IN Min2(100, x)

\* whether the exact saturation in percent is a whole number that the clamp
\* does not cut
SaturationWhole(r, g, b, boost) ==
    LET maxc == Max3(r, g, b)
        minc == Min3(r, g, b)
        num == (maxc - minc) * boost * 100
        den == maxc * 10
    IN maxc # minc /\ num <= 100 * den /\ num % den = 0

\* int(x) for a float x that stands for the exact value: the float divisions
\* of colorsys can leave x just below a whole number, which int() then cuts
\* to one less (e is 1), or leave it exact (e is 0)
FloatInt(exact, whole, e) == IF whole /\ exact > 0 THEN exact - e ELSE exact

\* the roundings floating point may take, and the one it takes for greys and
\* for Amber (hue 20, saturation 75)
Roundings == {0, 1}
ExactOnly == {0}

DefaultSettings ==
    [update_interval |-> DefaultInterval,
     brightness_step |-> DefaultStep,
     min_brightness |-> DefaultMinBrightness,
     monitor_number |-> DefaultMonitor,
     saturation_boost |-> DefaultBoost]

Fields == {"monitor_number", "update_interval", "brightness_step",
           "min_brightness", "saturation_boost"}

NoPayload == [kind |-> "none", h |-> 0, s |-> 0, v |-> 0, brightness |-> 0]

\* locals of lamp_loop and of the two functions it calls: brightness is
\* lamp_loop's (line 144), arg_brightness is set_lamp_state's parameter, which
\* line 99 overwrites.  The h_ fields are history: h_last and h_step are
\* last_brightness and the brightness step when the command was decided (the
\* values lines 97-98 read, or those in force at line 80 for the off payload),
\* h_hold is last_brightness as line 99 read it; h_born, kept until the
\* thread's first command is sent, is last_brightness as it was when the thread
\* began.
FreshLocals(ec) ==
    [error_count |-> ec, monitor_num |-> NoRead,
     r |-> 0, g |-> 0, b |-> 0, brightness |-> 0,
     arg_brightness |-> 0, h |-> 0, s |-> 0, v |-> 0,
     brightness_step |-> NoRead,
     h_last |-> NoRead, h_step |-> NoRead, h_hold |-> NoRead, h_born |-> NoRead,
     payload |-> NoPayload, success |-> FALSE, interval |-> NoRead]

\* a thread that enters lamp_loop with an error already counted
LoopEntryWithError(last) ==
    [[pc |-> "while"] @@ FreshLocals(1) EXCEPT !.h_born = last]

\* lines 139-142: a thread that enters lamp_loop sets error_count to 0 and
\* goes to the loop condition; last is the global last_brightness, which it
\* leaves alone
LoopEntry(last) ==
    [[pc |-> "while"] @@ FreshLocals(0) EXCEPT !.h_born = last]

NotStarted == [pc |-> "dead"] @@ FreshLocals(0)
NothingUsed == [f \in Fields |-> NoRead]
NothingSubmitted == [f \in Fields |-> Absent]

\* before is history: the settings as they were when the request took settings_lock
IdleHandler ==
    [kind |-> "idle", pc |-> "idle", form |-> NothingSubmitted, found |-> FALSE,
     before |-> NothingUsed]

Init ==
    /\ settings = DefaultSettings
    /\ last_brightness = None
    /\ running = TRUE
    /\ settings_lock = NoThread
    /\ mss_lock = NoThread
    \* main() has started the first lamp_thread before app.run serves requests
    /\ loop = [t \in LoopIds |->
                 IF t = 1 THEN LoopEntry(None) ELSE NotStarted]
    /\ handler = [h \in HandlerIds |-> IdleHandler]
    /\ used = [t \in LoopIds |-> NothingUsed]
    /\ seen = [t \in LoopIds |-> {}]
    /\ lastCtl = "none"
    /\ sendsSinceStop = 0
    /\ fails = [t \in LoopIds |-> 0]
    /\ cooled = [t \in LoopIds |-> 0]

\* ------------------------------------------------------ lamp_loop thread
Alive(t) == loop[t].pc # "dead"

\* a loop that never looks at the flag
LoopContinuesAlways(flag) == TRUE

\* while running:
LoopContinues(flag) == flag

\* a cutoff that also switches off at the threshold itself
IsTooDarkOrEqual(brightness, min_brightness) == brightness <= min_brightness

\* if brightness < settings["min_brightness"]:
IsTooDark(brightness, min_brightness) == brightness < min_brightness

\* a debounce that forgets the absolute value
ShouldHoldNoAbs(brightness, last, step) == last # None /\ brightness - last < step

\* if last_brightness is not None and abs(brightness - last_brightness) < brightness_step:
ShouldHold(brightness, last, step) == last # None /\ Abs(brightness - last) < step

\* brightness = last_brightness (line 99)
HeldBrightness(brightness, last) == last

\* a counter that a successful send does not reset
CountAfterNoReset(success, error_count) ==
    IF success THEN error_count ELSE error_count + 1

\* lines 146-149: error_count = 0, or error_count += 1
CountAfter(success, error_count) == IF success THEN 0 ELSE error_count + 1

\* a breaker that trips one failure late
CooldownDueLate(error_count) == error_count > max_errors

\* if error_count >= max_errors:
CooldownDue(error_count) == error_count >= max_errors

\* a send that records the brightness even when the request failed
LastAfterSendAlways(ok, off, sent, last) == IF off THEN 0 ELSE sent

\* last_brightness = 0 (line 95) or last_brightness = brightness (line 129),
\* both reached only when post and raise_for_status did not raise
LastAfterSend(ok, off, sent, last) ==
    IF ok THEN (IF off THEN 0 ELSE sent) ELSE last

\* a loop without the try of line 143: the exception ends lamp_loop
ExceptTargetFatal(raised_at) == "exiting"

\* except Exception (line 159): whatever the tick raises is caught inside the
\* while loop
ExceptTarget(raised_at) == "except"

\* a loop that keeps the values the dict was created with
SettingAtStartup(store, name) == DefaultSettings[name]

\* settings["name"] and settings.get("name", ...): the value stored now
Setting(store, name) == store[name]

\* a lock that never makes its caller wait
UnlockedAlways(lock) == TRUE

\* with settings_lock / with mss_lock: threading.Lock.acquire returns only
\* when no thread holds the lock
Unlocked(lock) == lock = NoThread

\* a with block that keeps its lock when it is left
ReleasedNever(holder) == holder

\* leaving a with block, by its end or by an exception, releases the lock
Released(holder) == NoThread

\* sct.monitors[monitor_num]: a Python list index, negative indices count from the end
MonitorIndexOk(n) == -(NumMonitors + 1) <= n /\ n <= NumMonitors

\* the three actions of the "on" payload and the single action of the "off" payload
OnPayload(h, s, v, brightness) ==
    [kind |-> "on", h |-> h, s |-> s, v |-> v, brightness |-> brightness]
OffPayload == [kind |-> "off", h |-> 0, s |-> 0, v |-> 0, brightness |-> 0]

Goto(t, pc) == [loop EXCEPT ![t].pc = pc]

\* the candidate records of tick t that hold the value it now reads for field f
StillAgree(t, f) == {rec \in seen[t] : rec[f] = settings[f]}

\* line 142
LoopWhile(t) ==
    /\ loop[t].pc = "while"
    /\ loop' = Goto(t, IF LoopContinues(running) THEN "cap_lock" ELSE "exiting")
    /\ UNCHANGED <<settings, last_brightness, running, settings_lock, mss_lock,
                   handler, used, seen, lastCtl, sendsSinceStop, fails, cooled>>

\* line 42: with settings_lock
CapLock(t) ==
    /\ loop[t].pc = "cap_lock"
    /\ Unlocked(settings_lock)
    /\ settings_lock' = LoopThread(t)
    /\ loop' = Goto(t, "cap_read")
    /\ UNCHANGED <<settings, last_brightness, running, mss_lock,
                   handler, used, seen, lastCtl, sendsSinceStop, fails, cooled>>

\* line 43, and the release of settings_lock
CapRead(t) ==
    /\ loop[t].pc = "cap_read"
    /\ loop' = [loop EXCEPT ![t].pc = "mss_acq",
                            ![t].monitor_num = Setting(settings, "monitor_number")]
    /\ settings_lock' = Released(settings_lock)
    /\ used' = [used EXCEPT ![t].monitor_number = Setting(settings, "monitor_number")]
    /\ seen' = [seen EXCEPT ![t] = {settings}]
    /\ UNCHANGED <<settings, last_brightness, running, mss_lock,
                   handler, lastCtl, sendsSinceStop, fails, cooled>>

\* line 44: with mss_lock
MssAcquire(t) ==
    /\ loop[t].pc = "mss_acq"
    /\ Unlocked(mss_lock)
    /\ mss_lock' = LoopThread(t)
    /\ loop' = Goto(t, "grab")
    /\ UNCHANGED <<settings, last_brightness, running, settings_lock,
                   handler, used, seen, lastCtl, sendsSinceStop, fails, cooled>>

\* lines 45-59 and line 144: the grab, the averaging, or the sentinel frame
\* of the except branch; mss_lock is released either way
Grab(t, frames) ==
    /\ loop[t].pc = "grab"
    /\ \/ \E f \in frames :
            /\ MonitorIndexOk(loop[t].monitor_num)
            /\ loop' = [loop EXCEPT ![t].pc = "sat",
                            ![t].r = f.r, ![t].g = f.g, ![t].b = f.b,
                            ![t].brightness = BrightnessOf(f.r, f.g, f.b),
                            ![t].arg_brightness = BrightnessOf(f.r, f.g, f.b)]
       \/ loop' = [loop EXCEPT ![t].pc = "sat",
                            ![t].r = 0, ![t].g = 0, ![t].b = 0,
                            ![t].brightness = 0, ![t].arg_brightness = 0]
    /\ mss_lock' = Released(mss_lock)
    /\ UNCHANGED <<settings, last_brightness, running, settings_lock,
                   handler, used, seen, lastCtl, sendsSinceStop, fails, cooled>>

\* lines 74-79: saturation_boost is read without settings_lock
ReadBoost(t, roundings) ==
    /\ loop[t].pc = "sat"
    /\ \E eh \in roundings, es \in roundings :
        LET r == loop[t].r
            g == loop[t].g
            b == loop[t].b
            boost == Setting(settings, "saturation_boost")
        IN loop' = [loop EXCEPT ![t].pc = "min",
                        ![t].h = FloatInt(HueOf(r, g, b), HueWhole(r, g, b), eh),
                        ![t].s = FloatInt(SaturationOf(r, g, b, boost),
                                          SaturationWhole(r, g, b, boost), es),
                        ![t].v = loop[t].arg_brightness]
    /\ used' = [used EXCEPT ![t].saturation_boost = Setting(settings, "saturation_boost")]
    /\ seen' = [seen EXCEPT ![t] = StillAgree(t, "saturation_boost")]
    /\ UNCHANGED <<settings, last_brightness, running, settings_lock, mss_lock,
                   handler, lastCtl, sendsSinceStop, fails, cooled>>

\* lines 80-89: min_brightness is read without settings_lock
CheckMin(t) ==
    /\ loop[t].pc = "min"
    /\ IF IsTooDark(loop[t].arg_brightness, Setting(settings, "min_brightness"))
       THEN loop' = [loop EXCEPT ![t].pc = "send_off", ![t].payload = OffPayload,
                                 ![t].h_last = last_brightness,
                                 ![t].h_step = settings.brightness_step]
       ELSE loop' = Goto(t, "step")
    /\ used' = [used EXCEPT ![t].min_brightness = Setting(settings, "min_brightness")]
    /\ seen' = [seen EXCEPT ![t] = StillAgree(t, "min_brightness")]
    /\ UNCHANGED <<settings, last_brightness, running, settings_lock, mss_lock,
                   handler, lastCtl, sendsSinceStop, fails, cooled>>

\* line 97: brightness_step is read without settings_lock
ReadStep(t) ==
    /\ loop[t].pc = "step"
    /\ loop' = [loop EXCEPT ![t].pc = "cmp",
                            ![t].brightness_step = Setting(settings, "brightness_step")]
    /\ used' = [used EXCEPT ![t].brightness_step = Setting(settings, "brightness_step")]
    /\ seen' = [seen EXCEPT ![t] = StillAgree(t, "brightness_step")]
    /\ UNCHANGED <<settings, last_brightness, running, settings_lock, mss_lock,
                   handler, lastCtl, sendsSinceStop, fails, cooled>>

\* line 98 (and lines 101-122 when the brightness is not held)
Compare(t) ==
    /\ loop[t].pc = "cmp"
    /\ IF ShouldHold(loop[t].arg_brightness, last_brightness, loop[t].brightness_step)
       THEN loop' = [loop EXCEPT ![t].pc = "hold",
                        ![t].h_last = last_brightness,
                        ![t].h_step = loop[t].brightness_step]
       ELSE loop' = [loop EXCEPT ![t].pc = "send_on",
                        ![t].h_last = last_brightness,
                        ![t].h_step = loop[t].brightness_step,
                        ![t].payload = OnPayload(loop[t].h, loop[t].s, loop[t].v,
                                                 loop[t].arg_brightness)]
    /\ UNCHANGED <<settings, last_brightness, running, settings_lock, mss_lock,
                   handler, used, seen, lastCtl, sendsSinceStop, fails, cooled>>

\* lines 99-122: the global is read again for the assignment
Hold(t) ==
    /\ loop[t].pc = "hold"
    /\ LET held == HeldBrightness(loop[t].arg_brightness, last_brightness)
       IN loop' = [loop EXCEPT ![t].pc = "send_on",
                    ![t].arg_brightness = held,
                    ![t].v = held,
                    ![t].h_hold = last_brightness,
                    ![t].payload = OnPayload(loop[t].h, loop[t].s, held, held)]
    /\ UNCHANGED <<settings, last_brightness, running, settings_lock, mss_lock,
                   handler, used, seen, lastCtl, sendsSinceStop, fails, cooled>>

\* requests.post(...) and response.raise_for_status(): lines 91-96 and 125-130
\* on success, the except branches of lines 132-137 otherwise
Send(t, outcomes) ==
    /\ loop[t].pc \in {"send_off", "send_on"}
    /\ \E o \in outcomes :
        \/ /\ o = "ok"
           /\ loop' = [loop EXCEPT ![t].pc = "post", ![t].success = TRUE,
                                   ![t].h_born = NoRead]
           /\ fails' = [fails EXCEPT ![t] = 0]
           /\ cooled' = [cooled EXCEPT ![t] = 0]
        \/ /\ o = "fail"
           /\ fails[t] < MaxFails
           /\ loop' = [loop EXCEPT ![t].pc = "post", ![t].success = FALSE,
                                   ![t].h_born = NoRead]
           /\ fails' = [fails EXCEPT ![t] = @ + 1]
           /\ UNCHANGED cooled
    /\ last_brightness' = LastAfterSend(loop'[t].success, loop[t].pc = "send_off",
                                        loop[t].arg_brightness, last_brightness)
    /\ sendsSinceStop' = IF running THEN sendsSinceStop
                         ELSE Min2(MaxSendCount, sendsSinceStop + 1)
    /\ UNCHANGED <<settings, running, settings_lock, mss_lock,
                   handler, used, seen, lastCtl>>

\* lines 146-151
AfterSend(t) ==
    /\ loop[t].pc = "post"
    /\ LET n == CountAfter(loop[t].success, loop[t].error_count)
       IN loop' = [loop EXCEPT
                        ![t].pc = IF ~loop[t].success /\ CooldownDue(n)
                                  THEN "cooldown" ELSE "int_lock",
                        ![t].error_count = n]
    /\ UNCHANGED <<settings, last_brightness, running, settings_lock, mss_lock,
                   handler, used, seen, lastCtl, sendsSinceStop, fails, cooled>>

\* lines 152-153: time.sleep(10) returns, the counter is reset
Cooldown(t) ==
    /\ loop[t].pc = "cooldown"
    /\ loop' = [loop EXCEPT ![t].pc = "int_lock", ![t].error_count = 0]
    /\ cooled' = [cooled EXCEPT ![t] = @ + 1]
    /\ UNCHANGED <<settings, last_brightness, running, settings_lock, mss_lock,
                   handler, used, seen, lastCtl, sendsSinceStop, fails>>

\* line 155: with settings_lock
IntervalLock(t) ==
    /\ loop[t].pc = "int_lock"
    /\ Unlocked(settings_lock)
    /\ settings_lock' = LoopThread(t)
    /\ loop' = Goto(t, "int_read")
    /\ UNCHANGED <<settings, last_brightness, running, mss_lock,
                   handler, used, seen, lastCtl, sendsSinceStop, fails, cooled>>

\* line 156, and the release of settings_lock
IntervalRead(t) ==
    /\ loop[t].pc = "int_read"
    /\ loop' = [loop EXCEPT ![t].pc = "sleep",
                            ![t].interval = Setting(settings, "update_interval")]
    /\ settings_lock' = Released(settings_lock)
    /\ used' = [used EXCEPT ![t].update_interval = Setting(settings, "update_interval")]
    /\ seen' = [seen EXCEPT ![t] = StillAgree(t, "update_interval")]
    /\ UNCHANGED <<settings, last_brightness, running, mss_lock,
                   handler, lastCtl, sendsSinceStop, fails, cooled>>

\* the locals of a finished tick are dead: the next tick overwrites them
NextTick(t) ==
    [pc |-> "while"] @@ FreshLocals(loop[t].error_count)

\* line 157: time.sleep raises ValueError for a negative length
Sleep(t) ==
    /\ loop[t].pc = "sleep"
    /\ IF loop[t].interval < 0
       THEN /\ loop' = Goto(t, ExceptTarget("sleep"))
            /\ UNCHANGED <<used, seen>>
       ELSE /\ loop' = [loop EXCEPT ![t] = NextTick(t)]
            /\ used' = [used EXCEPT ![t] = NothingUsed]
            /\ seen' = [seen EXCEPT ![t] = {}]
    /\ UNCHANGED <<settings, last_brightness, running, settings_lock, mss_lock,
                   handler, lastCtl, sendsSinceStop, fails, cooled>>

\* lines 159-161: time.sleep(5) returns, back to the loop condition
ExceptPause(t) ==
    /\ loop[t].pc = "except"
    /\ loop' = [loop EXCEPT ![t] = NextTick(t)]
    /\ used' = [used EXCEPT ![t] = NothingUsed]
    /\ seen' = [seen EXCEPT ![t] = {}]
    /\ UNCHANGED <<settings, last_brightness, running, settings_lock, mss_lock,
                   handler, lastCtl, sendsSinceStop, fails, cooled>>

\* lamp_loop returns and the thread ends: is_alive() is False from here on
ThreadExit(t) ==
    /\ loop[t].pc = "exiting"
    /\ loop' = [loop EXCEPT ![t] = NotStarted]
    /\ fails' = [fails EXCEPT ![t] = 0]
    /\ cooled' = [cooled EXCEPT ![t] = 0]
    /\ UNCHANGED <<settings, last_brightness, running, settings_lock, mss_lock,
                   handler, used, seen, lastCtl, sendsSinceStop>>

LoopStep(t, frames, outcomes) ==
    \/ LoopWhile(t)
    \/ CapLock(t)
    \/ CapRead(t)
    \/ MssAcquire(t)
    \/ Grab(t, frames)
    \/ ReadBoost(t, ExactOnly)
    \/ CheckMin(t)
    \/ ReadStep(t)
    \/ Compare(t)
    \/ Hold(t)
    \/ Send(t, outcomes)
    \/ AfterSend(t)
    \/ IntervalLock(t)
    \/ IntervalRead(t)
    \/ Sleep(t)

\* -------------------------------------------------- Flask request handlers
Serving(h, kind, pc) == handler[h].kind = kind /\ handler[h].pc = pc
HGoto(h, pc) == [handler EXCEPT ![h].pc = pc]

\* a request is dispatched to an idle worker thread
Arrive(h, kind, form) ==
    /\ handler[h].kind = "idle"
    /\ handler' = [handler EXCEPT ![h] =
            [kind |-> kind,
             pc |-> CASE kind = "update" -> "u_lock"
                      [] kind = "start" -> "s_set"
                      [] kind = "stop" -> "stop"
                      [] OTHER -> "idx_acq",
             form |-> form, found |-> FALSE, before |-> NothingUsed]]
    /\ UNCHANGED <<settings, last_brightness, running, settings_lock, mss_lock,
                   loop, used, seen, lastCtl, sendsSinceStop, fails, cooled>>

\* line 303: with settings_lock
UpdateLock(h) ==
    /\ Serving(h, "update", "u_lock")
    /\ Unlocked(settings_lock)
    /\ settings_lock' = HandlerThread(h)
    /\ handler' = [handler EXCEPT ![h].pc = "u304", ![h].before = settings]
    /\ UNCHANGED <<settings, last_brightness, running, mss_lock,
                   loop, used, seen, lastCtl, sendsSinceStop, fails, cooled>>

\* the order of the five assignments of lines 304-308
UpdatePcs == {"u304", "u305", "u306", "u307", "u308"}
FieldAt(pc) ==
    CASE pc = "u304" -> "monitor_number"
      [] pc = "u305" -> "update_interval"
      [] pc = "u306" -> "brightness_step"
      [] pc = "u307" -> "min_brightness"
      [] pc = "u308" -> "saturation_boost"
PcAfter(pc) ==
    CASE pc = "u304" -> "u305"
      [] pc = "u305" -> "u306"
      [] pc = "u306" -> "u307"
      [] pc = "u307" -> "u308"
      [] pc = "u308" -> "idx_acq"

\* int(request.form.get(name, settings[name])) and its float twin: the submitted
\* text parsed, the current value when the field is absent, ValueError otherwise
Parses(submitted) == submitted # Invalid
Parsed(submitted, current) == IF submitted = Absent THEN current ELSE submitted

\* the records a tick in progress may have taken its values from: those the
\* store holds when settings_lock is released, as far as they agree with what
\* the tick has read
Agrees(rec, reads) == \A f \in Fields : reads[f] = NoRead \/ reads[f] = rec[f]
Observe(rec) ==
    [t \in LoopIds |->
        IF used[t].monitor_number # NoRead /\ Agrees(rec, used[t])
        THEN seen[t] \cup {rec} ELSE seen[t]]

\* one of lines 304-308; leaving the with block (after line 308 or by the
\* exception) releases settings_lock; lines 310-315 go on to index()
UpdateAssign(h) ==
    /\ handler[h].kind = "update"
    /\ handler[h].pc \in UpdatePcs
    /\ LET f == FieldAt(handler[h].pc)
           x == handler[h].form[f]
       IN IF Parses(x)
          THEN /\ settings' = [settings EXCEPT ![f] = Parsed(x, settings[f])]
               /\ handler' = [handler EXCEPT
                                ![h].pc = PcAfter(handler[h].pc),
                                ![h].form = IF handler[h].pc = "u308"
                                            THEN NothingSubmitted ELSE @,
                                ![h].before = IF handler[h].pc = "u308"
                                              THEN NothingUsed ELSE @]
               /\ settings_lock' = IF handler[h].pc = "u308"
                                   THEN Released(settings_lock)
                                   ELSE settings_lock
               /\ seen' = IF handler[h].pc = "u308" THEN Observe(settings')
                          ELSE seen
          ELSE /\ handler' = [handler EXCEPT ![h].pc = "idx_acq",
                                              ![h].form = NothingSubmitted,
                                              ![h].before = NothingUsed]
               /\ settings_lock' = Released(settings_lock)
               /\ seen' = Observe(settings)
               /\ UNCHANGED settings
    /\ UNCHANGED <<last_brightness, running, mss_lock,
                   loop, used, lastCtl, sendsSinceStop, fails, cooled>>

\* line 320, and the return of line 322
StopScript(h) ==
    /\ Serving(h, "stop", "stop")
    /\ running' = FALSE
    /\ sendsSinceStop' = IF running THEN 0 ELSE sendsSinceStop
    /\ lastCtl' = "stop"
    /\ handler' = [handler EXCEPT ![h] = IdleHandler]
    /\ UNCHANGED <<settings, last_brightness, settings_lock, mss_lock,
                   loop, used, seen, fails, cooled>>

\* line 327
StartSet(h) ==
    /\ Serving(h, "start", "s_set")
    /\ running' = TRUE
    /\ sendsSinceStop' = 0
    /\ handler' = HGoto(h, "s_check")
    /\ UNCHANGED <<settings, last_brightness, settings_lock, mss_lock,
                   loop, used, seen, lastCtl, fails, cooled>>

\* any(thread.name == "lamp_thread" and thread.is_alive() ...)
AnyLampThread == \E t \in LoopIds : Alive(t)

\* line 328
StartCheck(h) ==
    /\ Serving(h, "start", "s_check")
    /\ handler' = [handler EXCEPT ![h].found = AnyLampThread,
                                  ![h].pc = IF AnyLampThread THEN "idx_acq"
                                            ELSE "s_spawn"]
    /\ UNCHANGED <<settings, last_brightness, running, settings_lock, mss_lock,
                   loop, used, seen, lastCtl, sendsSinceStop, fails, cooled>>

\* lines 329-330: a new lamp_thread starts at the top of lamp_loop
StartSpawn(h) ==
    /\ Serving(h, "start", "s_spawn")
    /\ \E t \in LoopIds :
        /\ ~Alive(t)
        /\ \A u \in LoopIds : u < t => Alive(u)
        /\ loop' = [loop EXCEPT ![t] = LoopEntry(last_brightness)]
    /\ handler' = HGoto(h, "idx_acq")
    /\ UNCHANGED <<settings, last_brightness, running, settings_lock, mss_lock,
                   used, seen, lastCtl, sendsSinceStop, fails, cooled>>

\* index(), line 293: get_available_monitors takes mss_lock (line 63)
IndexAcquire(h) ==
    /\ handler[h].kind \in {"update", "start", "index"}
    /\ handler[h].pc = "idx_acq"
    /\ Unlocked(mss_lock)
    /\ mss_lock' = HandlerThread(h)
    /\ handler' = HGoto(h, "idx_list")
    /\ UNCHANGED <<settings, last_brightness, running, settings_lock,
                   loop, used, seen, lastCtl, sendsSinceStop, fails, cooled>>

\* lines 64-68 and 294-298: the monitors are listed (or the fallback list is
\* returned), mss_lock is released, the page is rendered and the handler returns
IndexReturn(h) ==
    /\ handler[h].kind \in {"update", "start", "index"}
    /\ handler[h].pc = "idx_list"
    /\ mss_lock' = Released(mss_lock)
    /\ lastCtl' = IF handler[h].kind = "start" THEN "start" ELSE lastCtl
    /\ handler' = [handler EXCEPT ![h] = IdleHandler]
    /\ UNCHANGED <<settings, last_brightness, running, settings_lock,
                   loop, used, seen, sendsSinceStop, fails, cooled>>

\* ------------------------------------------------------------ environment
Frame(r, g, b) == [r |-> r, g |-> g, b |-> b]
\* average colours of brightness 3, 7, 40 and 45
Dark == Frame(8, 8, 8)
Dim == Frame(20, 20, 20)
Grey40 == Frame(102, 102, 102)
Amber == Frame(200, 100, 50)
\* a grey of brightness 41, one step of the screen away from Grey40
Grey41 == Frame(107, 107, 107)
Frames == {Dark, Dim, Amber}
Outcomes == {"ok", "fail"}

\* a form that fills in all five fields
FormDim ==
    [monitor_number |-> 1, update_interval |-> 5, brightness_step |-> 10,
     min_brightness |-> 3, saturation_boost |-> 20]
FormDefaults == DefaultSettings
\* a form that submits a negative interval and nothing else
FormNegInterval == [NothingSubmitted EXCEPT !.update_interval = -5]
Forms == {FormDim, FormDefaults, FormNegInterval}
\* a form whose brightness_step field is not a number
FormBadText ==
    [NothingSubmitted EXCEPT !.update_interval = 10, !.brightness_step = Invalid]
TextForms == {FormDim, FormDefaults, FormBadText}

UpdateStep(h) == UpdateLock(h) \/ UpdateAssign(h)
ControlStep(h) == StopScript(h) \/ StartSet(h) \/ StartCheck(h) \/ StartSpawn(h)
IndexStep(h) == IndexAcquire(h) \/ IndexReturn(h)

Requests(workers, kinds, forms) ==
    \E h \in workers : \E k \in kinds : \E f \in forms :
        Arrive(h, k, IF k = "update" THEN f ELSE NothingSubmitted)

\* one Flask worker
SeqWorkers == {1}

\* the loop started by main() under live settings updates and page loads, with
\* a changing screen and a lamp API that may fail
Next ==
    \/ \E t \in LoopIds : LoopStep(t, Frames, Outcomes) \/ Cooldown(t) \/ ExceptPause(t)
    \/ Requests(SeqWorkers, {"update", "index"}, Forms)
    \/ \E h \in SeqWorkers : UpdateStep(h) \/ IndexStep(h)

Spec == Init /\ [][Next]_vars

\* start and stop requests served by concurrent workers (Flask's threaded mode),
\* a screen that does not change and a lamp API that answers
NextControl ==
    \/ \E t \in LoopIds : LoopStep(t, {Grey40}, {"ok"}) \/ ThreadExit(t)
    \/ Requests(HandlerIds, {"start", "stop"}, {FormDefaults})
    \/ \E h \in HandlerIds : ControlStep(h) \/ IndexStep(h)

SpecControl == Init /\ [][NextControl]_vars

\* the life of the loop: start, stop and interval updates served one at a time,
\* a lamp API that may fail, a sleep that raises for a negative interval
NextLife ==
    \/ \E t \in LoopIds :
          LoopStep(t, {Grey40}, Outcomes) \/ Cooldown(t) \/ ExceptPause(t) \/ ThreadExit(t)
    \/ Requests(SeqWorkers, {"update", "start", "stop"}, {FormNegInterval, FormDefaults})
    \/ \E h \in SeqWorkers : UpdateStep(h) \/ ControlStep(h) \/ IndexStep(h)

\* every thread that can run does run, and a thread waiting for a lock gets it
\* when it is released again and again
Fairness ==
    /\ \A t \in LoopIds :
          SF_vars(LoopStep(t, {Grey40}, Outcomes) \/ Cooldown(t) \/ ExceptPause(t)
                  \/ ThreadExit(t))
    /\ \A h \in SeqWorkers : WF_vars(UpdateStep(h) \/ ControlStep(h) \/ IndexStep(h))

SpecLife == Init /\ [][NextLife]_vars /\ Fairness

\* settings forms typed by hand and posted from two browser tabs, a screen that
\* does not change and a lamp API that answers
NextSettings ==
    \/ \E t \in LoopIds : LoopStep(t, {Grey40}, {"ok"})
    \/ Requests(HandlerIds, {"update"}, TextForms)
    \/ \E h \in HandlerIds : UpdateStep(h) \/ IndexStep(h)

SpecSettings == Init /\ [][NextSettings]_vars

\* set_lamp_state on its own: a frame has just been grabbed, of any colour on a
\* grid of channel values, under any of a range of saturation boosts, with
\* last_brightness unknown or known; the command is built
Channels == {c \in 0..255 : c % ChannelStride = 0} \cup {1, 254}
Boosts == {0, 5, 10, 25, 1000}
Lasts == {None, 50}

InitColour ==
    \E r \in Channels, g \in Channels, b \in Channels, boost \in Boosts, last \in Lasts :
        /\ settings = [DefaultSettings EXCEPT !.saturation_boost = boost]
        /\ last_brightness = last
        /\ running = TRUE
        /\ settings_lock = NoThread
        /\ mss_lock = NoThread
        /\ loop = [t \in LoopIds |->
                     IF t = 1
                     THEN [[pc |-> "sat"] @@ FreshLocals(0) EXCEPT
                              !.monitor_num = DefaultMonitor,
                              !.r = r, !.g = g, !.b = b,
                              !.brightness = BrightnessOf(r, g, b),
                              !.arg_brightness = BrightnessOf(r, g, b)]
                     ELSE NotStarted]
        /\ handler = [h \in HandlerIds |-> IdleHandler]
        /\ used = [t \in LoopIds |->
                     IF t = 1 THEN [NothingUsed EXCEPT !.monitor_number = DefaultMonitor]
                     ELSE NothingUsed]
        /\ seen = [t \in LoopIds |->
                     IF t = 1
                     THEN {[DefaultSettings EXCEPT !.saturation_boost = boost]}
                     ELSE {}]
        /\ lastCtl = "none"
        /\ sendsSinceStop = 0
        /\ fails = [t \in LoopIds |-> 0]
        /\ cooled = [t \in LoopIds |-> 0]

NextColour ==
    \E t \in LoopIds :
        ReadBoost(t, Roundings) \/ CheckMin(t) \/ ReadStep(t) \/ Compare(t) \/ Hold(t)

SpecColour == InitColour /\ [][NextColour]_vars

\* the loop and two request handlers that compete for the two locks: settings
\* forms and page loads arrive at any time, the screen does not change and the
\* lamp API answers
NextLocks ==
    \/ \E t \in LoopIds : LoopStep(t, {Grey40}, {"ok"})
    \/ Requests(HandlerIds, {"update", "index"}, {FormDefaults})
    \/ \E h \in HandlerIds : UpdateStep(h) \/ IndexStep(h)

\* a scheduler and locks that are fair to every thread: a thread that can run
\* again and again, or whose lock is free again and again, does take its step
FairLocks ==
    /\ \A t \in LoopIds : SF_vars(LoopStep(t, {Grey40}, {"ok"}))
    /\ \A h \in HandlerIds : SF_vars(UpdateStep(h) \/ IndexStep(h))

SpecLocks == Init /\ [][NextLocks]_vars /\ FairLocks

\* stopping and starting again: start and stop requests served one at a time,
\* a screen that flickers between two greys and a lamp API that may fail
NextRestart ==
    \/ \E t \in LoopIds :
          LoopStep(t, {Grey40, Grey41}, Outcomes) \/ Cooldown(t) \/ ThreadExit(t)
    \/ Requests(SeqWorkers, {"start", "stop"}, {FormDefaults})
    \/ \E h \in SeqWorkers : ControlStep(h) \/ IndexStep(h)

SpecRestart == Init /\ [][NextRestart]_vars

\* ------------------------------------------------------------------ claims
LiveLoops == {t \in LoopIds : Alive(t)}
InTick(t) == used[t].monitor_number # NoRead
UpdateInProgress == \E h \in HandlerIds : settings_lock = HandlerThread(h)
Emitted(p) == IF p.kind = "on" THEN p.brightness ELSE 0

\* C1: every settings value a tick has read comes from one settings record:
\* whenever no update holds settings_lock, some record the store held during
\* the tick has all the values the tick has used.
TickUsesOneRecord ==
    \A t \in LoopIds :
        (InTick(t) /\ ~UpdateInProgress) => \E rec \in seen[t] : Agrees(rec, used[t])

\* C2: at most one lamp_loop thread is alive.
AtMostOneLoop == Cardinality(LiveLoops) <= 1

\* C3: when the last start or stop request to complete is a start, no start is
\* still being served and running is True, a lamp thread is alive inside its loop.
StartedLoopRuns ==
    (lastCtl = "start" /\ running /\ \A h \in HandlerIds : handler[h].kind # "start")
        => \E t \in LoopIds : loop[t].pc \notin {"dead", "exiting"}

\* C4: while running is False, at most one send has been made since it became
\* False.
AtMostOneSendAfterStop == ~running => sendsSinceStop <= 1

\* C5: once running is False, every lamp thread terminates unless running is
\* set again.
StopTerminates == (~running) ~> (LiveLoops = {} \/ running)
StoppedAndGone == ~running /\ LiveLoops = {} /\ lastCtl = "stop"

\* C6: the cooldown is entered exactly when the consecutive failures reach a
\* multiple of max_errors, it is over before the next send is attempted, and
\* the error counter is 0 right after it; fewer failures enter no cooldown.
BreakerTrips ==
    \A t \in LoopIds :
        /\ loop[t].pc = "cooldown" =>
              /\ fails[t] > 0
              /\ fails[t] % max_errors = 0
              /\ cooled[t] = (fails[t] \div max_errors) - 1
        /\ loop[t].pc \notin {"post", "cooldown"} =>
              /\ cooled[t] = fails[t] \div max_errors
              /\ loop[t].error_count = fails[t] % max_errors
CooledDown ==
    \E t \in LoopIds :
        loop[t].pc = "int_lock" /\ fails[t] = max_errors /\ cooled[t] = 1
            /\ loop[t].error_count = 0

\* C7: the error counter stays in 0..max_errors, is below max_errors whenever a
\* send is attempted, and is 0 once a successful send has been counted.
ErrorCountBounded ==
    \A t \in LoopIds :
        /\ loop[t].error_count \in 0..max_errors
        /\ loop[t].pc \in {"send_off", "send_on"} => loop[t].error_count < max_errors
        /\ (loop[t].success /\ loop[t].pc \in {"int_lock", "int_read", "sleep", "except"})
              => loop[t].error_count = 0
SuccessAfterFailures ==
    \E t \in LoopIds : loop[t].pc = "post" /\ loop[t].success /\ loop[t].error_count = max_errors - 1

\* C8: every power-on command that has been sent carries a brightness in 1..100.
OnBrightnessInRange ==
    \A t \in LoopIds :
        (loop[t].pc = "post" /\ loop[t].payload.kind = "on")
            => loop[t].payload.brightness \in 1..100

\* C9: the command built is the single power-off action exactly when the
\* frame's brightness is below the min_brightness the tick read.
AutoOff ==
    \A t \in LoopIds :
        loop[t].payload.kind # "none" =>
            IF loop[t].brightness < used[t].min_brightness
            THEN loop[t].payload = OffPayload
            ELSE loop[t].payload.kind = "on"
OffDespiteDebounce ==
    \E t \in LoopIds :
        /\ loop[t].payload.kind = "off"
        /\ loop[t].h_last > 0
        /\ Abs(loop[t].brightness - loop[t].h_last) < loop[t].h_step

\* C10 as stated: whenever a command is built for a frame within
\* brightness_step of a known last_brightness, its brightness is
\* last_brightness (0 standing for power-off); otherwise it is the frame's.
DebounceAlways ==
    \A t \in LoopIds :
        loop[t].payload.kind # "none" =>
            IF loop[t].h_last # None
                /\ Abs(loop[t].brightness - loop[t].h_last) < loop[t].h_step
            THEN Emitted(loop[t].payload) = loop[t].h_last
            ELSE Emitted(loop[t].payload) = loop[t].brightness

\* C10 as amended: for a frame that is not below min_brightness, the power-on
\* command carries last_brightness (as line 99 reads it) when the frame is
\* within brightness_step of the known last_brightness that line 98 compared,
\* and the frame's brightness otherwise.
DebounceWhenOn ==
    \A t \in LoopIds :
        (loop[t].payload.kind # "none"
            /\ loop[t].brightness >= used[t].min_brightness) =>
            /\ loop[t].payload.kind = "on"
            /\ IF loop[t].h_last # None
                   /\ Abs(loop[t].brightness - loop[t].h_last) < loop[t].h_step
               THEN loop[t].payload.brightness = loop[t].h_hold
                    /\ loop[t].h_hold = loop[t].h_last
               ELSE loop[t].payload.brightness = loop[t].brightness
HeldAtLast ==
    \E t \in LoopIds :
        /\ loop[t].payload.kind = "on"
        /\ loop[t].h_last # None
        /\ loop[t].brightness # loop[t].h_last
        /\ loop[t].payload.brightness = loop[t].h_last

\* C11: last_brightness changes only in a step that is a successful send, and
\* then it becomes the brightness of the command sent (0 for the power-off
\* command); a step that is a failed send leaves it as it was.
LastBrightnessFollowsSends ==
    [][
        /\ last_brightness' # last_brightness =>
              \E t \in LoopIds :
                  /\ loop[t].pc \in {"send_off", "send_on"}
                  /\ loop'[t].pc = "post"
                  /\ loop'[t].success
        /\ \A u \in LoopIds :
              (loop[u].pc \in {"send_off", "send_on"} /\ loop'[u].pc = "post") =>
                  IF loop'[u].success
                  THEN last_brightness' = Emitted(loop[u].payload)
                  ELSE last_brightness' = last_brightness
    ]_vars
FailedSendKeptLast ==
    \E t \in LoopIds :
        /\ loop[t].pc = "post"
        /\ ~loop[t].success
        /\ last_brightness # None
        /\ last_brightness # Emitted(loop[t].payload)

\* C12: when an update_settings request leaves its with block, either every
\* field it submitted has been replaced (the others keeping their values) or
\* all five fields are as they were when the request began.
UpdateAllOrNothing ==
    [][
        \A h \in HandlerIds :
            (handler[h].kind = "update" /\ handler[h].pc \in UpdatePcs
                /\ handler'[h].pc = "idx_acq") =>
                \/ settings' = [f \in Fields |->
                                  IF handler[h].form[f] = Absent
                                  THEN handler[h].before[f] ELSE handler[h].form[f]]
                \/ settings' = handler[h].before
    ]_vars

\* C13: the stored settings are always inside their domains: update_interval
\* above 0, brightness_step in 1..100, min_brightness in 0..100, monitor_number
\* at least 0 and saturation_boost above 0.
SettingsInDomain ==
    /\ settings.update_interval > 0
    /\ settings.brightness_step \in 1..100
    /\ settings.min_brightness \in 0..100
    /\ settings.monitor_number >= 0
    /\ settings.saturation_boost > 0

\* C14: a lamp thread leaves its while loop only in a step taken at the loop
\* condition with running False, and it ends only after leaving the loop that
\* way; in particular not from a tick with a sentinel frame, a failed send or
\* a raised exception.
LoopHasNoFatalPath ==
    [][
        \A t \in LoopIds :
            /\ (loop'[t].pc = "exiting" /\ loop[t].pc # "exiting") =>
                  (loop[t].pc = "while" /\ ~running)
            /\ (loop'[t].pc = "dead" /\ loop[t].pc # "dead") =>
                  loop[t].pc = "exiting"
    ]_vars
SurvivedBadTick ==
    \E t \in LoopIds :
        /\ loop[t].pc = "except"
        /\ loop[t].brightness = 0
        /\ ~loop[t].success
        /\ fails[t] = max_errors

\* C15: a tick begins with no settings value in hand, and every settings value
\* it takes (monitor_number, saturation_boost, min_brightness, brightness_step,
\* update_interval) is the value the store holds at that moment, hence that of
\* the latest update.
TicksReadLiveSettings ==
    [][
        \A t \in LoopIds :
            /\ loop[t].pc \in {"while", "cap_lock"} =>
                  /\ used[t] = NothingUsed
                  /\ loop[t].monitor_num = NoRead
                  /\ loop[t].brightness_step = NoRead
                  /\ loop[t].interval = NoRead
            /\ \A f \in Fields :
                  used'[t][f] \notin {used[t][f], NoRead} => used'[t][f] = settings[f]
            /\ loop'[t].monitor_num \notin {loop[t].monitor_num, NoRead} =>
                  loop'[t].monitor_num = settings.monitor_number
            /\ loop'[t].brightness_step \notin {loop[t].brightness_step, NoRead} =>
                  loop'[t].brightness_step = settings.brightness_step
            /\ loop'[t].interval \notin {loop[t].interval, NoRead} =>
                  loop'[t].interval = settings.update_interval
    ]_vars
TickAfterUpdate ==
    \E t \in LoopIds :
        /\ loop[t].pc = "sleep"
        /\ used[t] = FormDim
        /\ settings = FormDim
        /\ loop[t].interval = FormDim.update_interval
        /\ loop[t].payload.kind = "on"
        /\ loop[t].payload.s = SaturationOf(loop[t].r, loop[t].g, loop[t].b,
                                            FormDim.saturation_boost)
        /\ loop[t].payload.s # SaturationOf(loop[t].r, loop[t].g, loop[t].b,
                                            DefaultBoost)

\* C16: once set_lamp_state has converted the colour, the hue is in 0..359 and
\* the saturation in 0..100, and both are 0 for a grey frame; the same holds
\* for the hue and saturation of every power-on command built.
HueSaturationInRange ==
    \A t \in LoopIds :
        /\ loop[t].pc \in {"min", "step", "cmp", "hold", "send_on", "send_off"} =>
              /\ loop[t].h \in 0..359
              /\ loop[t].s \in 0..100
              /\ (loop[t].r = loop[t].g /\ loop[t].g = loop[t].b) =>
                    (loop[t].h = 0 /\ loop[t].s = 0)
        /\ loop[t].payload.kind = "on" =>
              /\ loop[t].payload.h \in 0..359
              /\ loop[t].payload.s \in 0..100
              /\ (loop[t].r = loop[t].g /\ loop[t].g = loop[t].b) =>
                    (loop[t].payload.h = 0 /\ loop[t].payload.s = 0)
ClampedAtFullSaturation ==
    \E t \in LoopIds :
        /\ loop[t].payload.kind = "on"
        /\ loop[t].payload.h = 359
        /\ loop[t].payload.s = 100
        /\ SaturationUnclamped(loop[t].r, loop[t].g, loop[t].b,
                               settings.saturation_boost) > 100

\* C17: at most one thread is inside a call of the capture backend, be it the
\* loop's grab (lines 45-47) or a handler's monitor listing (lines 64-65), and
\* that thread holds mss_lock.
InCapture ==
    {LoopThread(t) : t \in {u \in LoopIds : loop[u].pc = "grab"}}
        \cup {HandlerThread(h) : h \in {k \in HandlerIds : handler[k].pc = "idx_list"}}
CaptureSerialized ==
    /\ Cardinality(InCapture) <= 1
    /\ \A x \in InCapture : mss_lock = x
CallerWaitsForCapture ==
    /\ \E t \in LoopIds : loop[t].pc = "grab"
    /\ \E h \in HandlerIds : handler[h].pc = "idx_acq"
    /\ mss_lock \in {LoopThread(t) : t \in LoopIds}

\* C18: no thread holds settings_lock and mss_lock together; a lamp thread
\* that sends or sleeps holds neither; a thread that waits for a lock holds
\* none, so no two threads wait for each other; and every thread that waits
\* for a lock gets it.
HoldsALock(x) == settings_lock = x \/ mss_lock = x
LoopWaitPcs == {"cap_lock", "mss_acq", "int_lock"}
LoopBusyPcs == {"send_on", "send_off", "cooldown", "sleep", "except"}
HandlerWaitPcs == {"u_lock", "idx_acq"}
LocksKeptApart ==
    /\ \A t \in LoopIds :
          /\ ~(settings_lock = LoopThread(t) /\ mss_lock = LoopThread(t))
          /\ loop[t].pc \in LoopBusyPcs \cup LoopWaitPcs => ~HoldsALock(LoopThread(t))
    /\ \A h \in HandlerIds :
          /\ ~(settings_lock = HandlerThread(h) /\ mss_lock = HandlerThread(h))
          /\ handler[h].pc \in HandlerWaitPcs => ~HoldsALock(HandlerThread(h))
LocksNeverNestAndAreGranted ==
    /\ []LocksKeptApart
    /\ \A t \in LoopIds :
          /\ (loop[t].pc = "cap_lock") ~> (settings_lock = LoopThread(t))
          /\ (loop[t].pc = "mss_acq") ~> (mss_lock = LoopThread(t))
          /\ (loop[t].pc = "int_lock") ~> (settings_lock = LoopThread(t))
    /\ \A h \in HandlerIds :
          /\ (handler[h].pc = "u_lock") ~> (settings_lock = HandlerThread(h))
          /\ (handler[h].pc = "idx_acq") ~> (mss_lock = HandlerThread(h))
LoopWaitsForHandler ==
    \E h \in HandlerIds :
        /\ settings_lock = HandlerThread(h)
        /\ \E t \in LoopIds : loop[t].pc \in {"cap_lock", "int_lock"}

\* C19: a lamp thread that is started begins at the loop condition with error
\* count 0 and leaves last_brightness as the previous thread left it; no start
\* or stop request changes last_brightness and a known last_brightness never
\* becomes unknown again; so the command of the new thread's first tick is
\* debounced against the last_brightness found at its start.
RestartKeepsLastBrightness ==
    [][
        /\ \A t \in LoopIds :
              /\ (loop[t].pc = "dead" /\ loop'[t].pc # "dead") =>
                    /\ loop'[t].pc = "while"
                    /\ loop'[t].error_count = 0
                    /\ loop'[t].h_born = last_brightness
                    /\ last_brightness' = last_brightness
              /\ (loop[t].h_born # NoRead /\ loop[t].h_last # NoRead) =>
                    loop[t].h_last = loop[t].h_born
              /\ (loop[t].h_born # NoRead /\ loop[t].payload.kind = "on") =>
                    IF loop[t].h_born # None
                        /\ Abs(loop[t].brightness - loop[t].h_born) < loop[t].h_step
                    THEN loop[t].payload.brightness = loop[t].h_born
                    ELSE loop[t].payload.brightness = loop[t].brightness
        /\ (handler' # handler) => last_brightness' = last_brightness
        /\ (last_brightness # None) => (last_brightness' # None)
    ]_vars
FirstTickHeldAtOldBrightness ==
    \E t \in LoopIds :
        /\ lastCtl = "start"
        /\ loop[t].h_born \notin {NoRead, None}
        /\ loop[t].payload.kind = "on"
        /\ loop[t].brightness # loop[t].h_born
        /\ loop[t].payload.brightness = loop[t].h_born

====
